---- MODULE Spec2Model ----
(***************************************************************************)
(* Model of the todo CRUD handlers of src/src/handler.rs over the table    *)
(* todo_db.todos(id, title, content, completed, created_at, updated_at).   *)
(* Every handler is cut at its storage calls (.await): one action per      *)
(* stretch of code between two suspension points.                          *)
(***************************************************************************)
EXTENDS Integers, Sequences, FiniteSets, TLC

\* ---------------------------------------------------------------- bounds
MaxIds == 2        \* distinct uuids the generator can hand out
MaxClock == 2      \* last clock reading (in sub-millisecond ticks)
MaxRequests == 3   \* requests served in one run
SubMs == 2         \* clock ticks per millisecond

Ids == 1..MaxIds
Titles == {"t1", "t2"}      \* title strings the requests carry
Contents == {"c1", "c2"}    \* content strings the requests carry
Procs == {1, 2}    \* request tasks that may be in flight together

\* Option<T>: None is <<>>, Some(v) is <<v>>.
None == <<>>
Some(v) == <<v>>
IsSome(o) == o # <<>>
Unwrap(o) == o[1]
unwrap_or(o, d) == IF o # <<>> THEN o[1] ELSE d
Opt(S) == {<<>>} \cup {<<v>> : v \in S}

VARIABLES
    store,    \* table todo_db.todos: id -> Option(row)
    clock,    \* Utc::now(), in ticks
    issued,   \* uuids generated so far
    pc,       \* per task: where the handler is suspended
    req,      \* per task: the decoded request (path id, body)
    loc,      \* per task: the handler's locals that live across an .await
    resp,     \* per task: the response of the finished handler
    pre,      \* per task: the table and the deleted ids when the request arrived (history)
    muts,     \* per task: mutating queries issued for the request (history)
    prev,     \* per task: the entity returned by the task's previous request when that
              \* was a successful create, else None (history)
    deleted,  \* ids whose delete has answered 204 (history)
    served    \* requests that have arrived so far

vars == <<store, clock, issued, pc, req, loc, resp, pre, muts, prev, deleted, served>>

\* ------------------------------------------------------------ timestamps
\* DateTime::timestamp_millis: the reading truncated to whole milliseconds.
timestamp_millis(datetime) == datetime \div SubMs
\* DateTime::from_timestamp_millis: a whole-millisecond reading.
from_timestamp_millis(ms) == ms * SubMs

\* ------------------------------------------------------------------ rows
Row(title, content, completed, created_at, updated_at) ==
    [title |-> title, content |-> content, completed |-> completed,
     created_at |-> created_at, updated_at |-> updated_at]

\* model.rs Todo
Todo(id, title, content, completed, createdAt, updatedAt) ==
    [id |-> id, title |-> title, content |-> content, completed |-> completed,
     createdAt |-> createdAt, updatedAt |-> updatedAt]

EmptyStore == [i \in Ids |-> None]

HasRow(s, id) == s[id] # None
RowAt(s, id) == s[id][1]

\* into_typed::<(String, String, String, bool, CqlTimestamp, CqlTimestamp)>:
\* a row with a null column does not decode.
Decodes(row) == row.created_at # None /\ row.updated_at # None

\* The Todo built from a decoded row (identical in list, get and edit).
DecodeRow(id, row) ==
    Todo(Some(id), row.title, row.content, Some(row.completed),
         Some(from_timestamp_millis(Unwrap(row.created_at))),
         Some(from_timestamp_millis(Unwrap(row.updated_at))))

\* SELECT ... WHERE id = ?, then .next() and the decode: Option<Todo>.
SelectTodoById(s, id) ==
    IF HasRow(s, id) /\ Decodes(Unwrap(s[id]))
    THEN Some(DecodeRow(id, Unwrap(s[id])))
    ELSE None

\* SELECT id FROM todo_db.todos WHERE title = ? ALLOW FILTERING
SelectIdsByTitle(s, title) ==
    {i \in Ids : HasRow(s, i) /\ Unwrap(s[i]).title = title}

\* Mutant: the insert writes only while no row carries the title.
InsertRow_if_title_free(s, id, title, content, completed, created_at, updated_at) ==
    IF SelectIdsByTitle(s, title) # {} THEN s
    ELSE [s EXCEPT ![id] = Some(Row(title, content, completed,
                                    Some(created_at), Some(updated_at)))]

\* INSERT INTO todo_db.todos (...) VALUES (?, ?, ?, ?, ?, ?)
InsertRow(s, id, title, content, completed, created_at, updated_at) ==
    [s EXCEPT ![id] = Some(Row(title, content, completed,
                               Some(created_at), Some(updated_at)))]

\* Mutant: the update writes created_at as well.
UpdateRow_sets_created_at(s, id, title, content, completed, updated_at) ==
    [s EXCEPT ![id] =
        Some(Row(title, content, completed, Some(updated_at), Some(updated_at)))]

\* Mutant: the update leaves updated_at as it was.
UpdateRow_keeps_updated_at(s, id, title, content, completed, updated_at) ==
    [s EXCEPT ![id] =
        Some(Row(title, content, completed,
                 IF s[id] # None THEN s[id][1].created_at ELSE None,
                 IF s[id] # None THEN s[id][1].updated_at ELSE None))]

\* UPDATE todo_db.todos SET title, content, completed, updated_at WHERE id = ?
\* A CQL UPDATE writes the named columns of the row with that key whether or
\* not the row exists; the columns it does not name keep their value (null
\* for a row that did not exist).
UpdateRow(s, id, title, content, completed, updated_at) ==
    [s EXCEPT ![id] =
        Some(Row(title, content, completed,
                 IF HasRow(s, id) THEN Unwrap(s[id]).created_at ELSE None,
                 Some(updated_at)))]

\* Mutant: the delete removes nothing.
DeleteRow_keeps(s, id) == s

\* DELETE FROM todo_db.todos WHERE id = ?
DeleteRow(s, id) == [s EXCEPT ![id] = None]

\* ------------------------------------------------------------- responses
\* A decoded request: the path id, the JSON body, the query options.
Req(kind, id, title, content, completed, page, limit) ==
    [kind |-> kind, id |-> id, title |-> title, content |-> content,
     completed |-> completed, page |-> page, limit |-> limit]
NoReq == Req("none", None, None, None, None, None, None)
NoResp == [code |-> 0, status |-> "none", todo |-> None]
NoLoc == [at |-> "none"]

\* SingleTodoResponse under HttpResponse::Ok
OkTodo(todo) == [code |-> 200, status |-> "success", todo |-> Some(todo)]
\* HttpResponse::NoContent().finish()
NoContent == [code |-> 204, status |-> "none", todo |-> None]
\* GenericResponse "fail" under HttpResponse::NotFound
NotFound == [code |-> 404, status |-> "fail", todo |-> None]
\* GenericResponse "fail" under HttpResponse::Conflict
Conflict == [code |-> 409, status |-> "fail", todo |-> None]
\* GenericResponse "error" under HttpResponse::InternalServerError
InternalServerError == [code |-> 500, status |-> "error", todo |-> None]

\* ------------------------------------------------------------------ init
Init ==
    /\ store = EmptyStore
    /\ clock = 0
    /\ issued = {}
    /\ pc = [p \in Procs |-> "idle"]
    /\ req = [p \in Procs |-> NoReq]
    /\ loc = [p \in Procs |-> NoLoc]
    /\ resp = [p \in Procs |-> NoResp]
    /\ pre = [p \in Procs |-> [store |-> EmptyStore, deleted |-> {}]]
    /\ muts = [p \in Procs |-> {}]
    /\ prev = [p \in Procs |-> None]
    /\ deleted = {}
    /\ served = 0

\* A task takes its next request once its handler has returned.
Free(p) == pc[p] \in {"idle", "done"}

\* Request r arrives at task p.
Arrive(p, r) ==
    /\ Free(p)
    /\ served < MaxRequests
    /\ served' = served + 1
    /\ req' = [req EXCEPT ![p] = r]
    /\ pre' = [pre EXCEPT ![p] = [store |-> store, deleted |-> deleted]]
    /\ prev' = [prev EXCEPT ![p] =
                    IF req[p].kind = "create" /\ resp[p].code = 200
                    THEN resp[p].todo ELSE None]

\* The handler of task p waits at storage call `at` with locals l.
Suspend(p, at, l) ==
    /\ pc' = [pc EXCEPT ![p] = at]
    /\ loc' = [loc EXCEPT ![p] = l]
    /\ resp' = [resp EXCEPT ![p] = NoResp]

\* The handler of task p returns response r.
Return(p, r) ==
    /\ pc' = [pc EXCEPT ![p] = "done"]
    /\ resp' = [resp EXCEPT ![p] = r]
    /\ loc' = [loc EXCEPT ![p] = NoLoc]

\* The wall clock advances.
Tick ==
    /\ clock < MaxClock
    /\ clock' = clock + 1
    /\ UNCHANGED <<store, issued, pc, req, loc, resp, pre, muts, prev, deleted, served>>

\* ---------------------------------------------------------------- create
\* Mutant: a failed query of create is followed by the insert all the same.
CreateErr_then_insert(p) ==
    /\ pc[p] \in {"create_check", "create_insert"}
    /\ store' = InsertRow(store, loc[p].uuid_id, loc[p].title, loc[p].content,
                          FALSE, loc[p].timestamp, loc[p].timestamp)
    /\ Return(p, InternalServerError)
    /\ UNCHANGED <<clock, issued, req, pre, muts, prev, deleted, served>>

\* Mutant: the generator may hand out a uuid it has handed out before.
new_v4_repeating(used) == Ids

\* Uuid::new_v4(): a version-4 uuid, taken to differ from every uuid
\* generated before (122 random bits). Which unused uuid it is does not
\* matter to any handler, so the model hands out the least unused one.
new_v4(used) == {i \in Ids \ used : \A j \in Ids \ used : i <= j}

CreateReq(title, content) ==
    Req("create", None, Some(title), Some(content), None, None, None)

\* create_todo_handler up to the uniqueness query: uuid and clock are read
\* before the first storage call.
CreateBegin(p) ==
    \E title \in Titles, content \in Contents, uuid_id \in new_v4(issued) :
        /\ Arrive(p, CreateReq(title, content))
        /\ Suspend(p, "create_check",
                   [at |-> "create", uuid_id |-> uuid_id, datetime |-> clock,
                    timestamp |-> timestamp_millis(clock),
                    title |-> title, content |-> content])
        /\ issued' = issued \cup {uuid_id}
        /\ muts' = [muts EXCEPT ![p] = {}]
        /\ UNCHANGED <<store, clock, deleted>>

\* Mutant: the answer of the uniqueness query is not looked at.
TitleTaken_ignored(s, title) == FALSE

\* The answer of the uniqueness query: !rows.is_empty() is the conflict.
TitleTaken(s, title) == SelectIdsByTitle(s, title) # {}

\* The uniqueness query answered Ok.
CreateCheck(p) ==
    /\ pc[p] = "create_check"
    /\ IF TitleTaken(store, loc[p].title)
       THEN Return(p, Conflict)
       ELSE /\ pc' = [pc EXCEPT ![p] = "create_insert"]
            /\ UNCHANGED <<loc, resp>>
    /\ UNCHANGED <<store, clock, issued, req, pre, muts, prev, deleted, served>>

\* The entity of the create response: it carries the clock reading itself.
CreatedTodo(l) ==
    Todo(Some(l.uuid_id), l.title, l.content, Some(FALSE),
         Some(l.datetime), Some(l.datetime))

\* The insert answered Ok.
CreateInsert(p) ==
    /\ pc[p] = "create_insert"
    /\ store' = InsertRow(store, loc[p].uuid_id, loc[p].title, loc[p].content,
                          FALSE, loc[p].timestamp, loc[p].timestamp)
    /\ muts' = [muts EXCEPT ![p] = @ \cup {"insert"}]
    /\ Return(p, OkTodo(CreatedTodo(loc[p])))
    /\ UNCHANGED <<clock, issued, req, pre, prev, deleted, served>>

\* The uniqueness query or the insert answered Err.
CreateErr(p) ==
    /\ pc[p] \in {"create_check", "create_insert"}
    /\ Return(p, InternalServerError)
    /\ UNCHANGED <<store, clock, issued, req, pre, muts, prev, deleted, served>>

\* ------------------------------------------------------------------- get
GetReq(id) == Req("get", Some(id), None, None, None, None, None)

\* The response of get_todo_handler for the select's answer.
GetResponse(found) == IF IsSome(found) THEN OkTodo(Unwrap(found)) ELSE NotFound

\* get_todo_handler: the select answered Ok.
GetSelect(p, ids) ==
    \E id \in ids :
        /\ Arrive(p, GetReq(id))
        /\ Return(p, GetResponse(SelectTodoById(store, id)))
        /\ muts' = [muts EXCEPT ![p] = {}]
        /\ UNCHANGED <<store, clock, issued, deleted>>

\* get_todo_handler: the select answered Err.
GetErr(p, ids) ==
    \E id \in ids :
        /\ Arrive(p, GetReq(id))
        /\ Return(p, InternalServerError)
        /\ muts' = [muts EXCEPT ![p] = {}]
        /\ UNCHANGED <<store, clock, issued, deleted>>

\* ------------------------------------------------------------------ edit
\* UpdateTodoSchema with the path id
EditReq(id, title, content, completed) ==
    Req("edit", Some(id), title, content, completed, None, None)

EditReqs ==
    {EditReq(id, title, content, completed) :
        id \in Ids, title \in Opt(Titles), content \in Opt(Contents),
        completed \in Opt(BOOLEAN)}

\* Mutant: the title of the body is not looked at.
new_title_keeps(body, existing) == existing.title

\* The merge of the body into the row read: a field of the body wins when
\* it is present.
new_title(body, existing) == unwrap_or(body.title, existing.title)
new_content(body, existing) == unwrap_or(body.content, existing.content)
\* Mutant: a completed = false in the body is taken for an absent field.
new_completed_if_true(body, existing) ==
    IF body.completed = Some(TRUE) THEN TRUE
    ELSE unwrap_or(existing.completed, FALSE)

new_completed(body, existing) ==
    unwrap_or(body.completed, unwrap_or(existing.completed, FALSE))

\* edit_todo_handler: the select answered Ok. Not found ends the handler;
\* otherwise the clock is read, the merge computed and the update issued.
EditSelect(p, reqs) ==
    \E r \in reqs :
        /\ Arrive(p, r)
        /\ LET existing_todo == SelectTodoById(store, Unwrap(r.id)) IN
           IF existing_todo = None
           THEN Return(p, NotFound)
           ELSE LET existing == Unwrap(existing_todo) IN
                Suspend(p, "edit_update",
                        [at |-> "edit", id |-> Unwrap(r.id), existing |-> existing,
                         datetime |-> clock, timestamp |-> timestamp_millis(clock),
                         new_title |-> new_title(r, existing),
                         new_content |-> new_content(r, existing),
                         new_completed |-> new_completed(r, existing)])
        /\ muts' = [muts EXCEPT ![p] = {}]
        /\ UNCHANGED <<store, clock, issued, deleted>>

\* The entity of the edit response.
EditedTodo(l) ==
    Todo(Some(l.id), l.new_title, l.new_content, Some(l.new_completed),
         l.existing.createdAt, Some(l.datetime))

\* The update answered Ok.
EditUpdate(p) ==
    /\ pc[p] = "edit_update"
    /\ store' = UpdateRow(store, loc[p].id, loc[p].new_title, loc[p].new_content,
                          loc[p].new_completed, loc[p].timestamp)
    /\ muts' = [muts EXCEPT ![p] = @ \cup {"update"}]
    /\ Return(p, OkTodo(EditedTodo(loc[p])))
    /\ UNCHANGED <<clock, issued, req, pre, prev, deleted, served>>

\* edit_todo_handler: the select answered Err.
EditSelectErr(p, reqs) ==
    \E r \in reqs :
        /\ Arrive(p, r)
        /\ Return(p, InternalServerError)
        /\ muts' = [muts EXCEPT ![p] = {}]
        /\ UNCHANGED <<store, clock, issued, deleted>>

\* The update answered Err.
EditUpdateErr(p) ==
    /\ pc[p] = "edit_update"
    /\ Return(p, InternalServerError)
    /\ UNCHANGED <<store, clock, issued, req, pre, muts, prev, deleted, served>>

\* ---------------------------------------------------------------- delete
DeleteReq(id) == Req("delete", Some(id), None, None, None, None, None)

\* Mutant: the existence test never finds the result empty.
RowsEmptyById_never(s, id) == FALSE

\* SELECT id FROM todo_db.todos WHERE id = ?, then rows.is_empty()
RowsEmptyById(s, id) == ~HasRow(s, id)

\* delete_todo_handler: the existence query answered Ok.
DeleteCheck(p, ids) ==
    \E id \in ids :
        /\ Arrive(p, DeleteReq(id))
        /\ IF RowsEmptyById(store, id)
           THEN Return(p, NotFound)
           ELSE Suspend(p, "delete_exec", [at |-> "delete", id |-> id])
        /\ muts' = [muts EXCEPT ![p] = {}]
        /\ UNCHANGED <<store, clock, issued, deleted>>

\* The delete answered Ok.
DeleteExec(p) ==
    /\ pc[p] = "delete_exec"
    /\ store' = DeleteRow(store, loc[p].id)
    /\ muts' = [muts EXCEPT ![p] = @ \cup {"delete"}]
    /\ deleted' = deleted \cup {loc[p].id}
    /\ Return(p, NoContent)
    /\ UNCHANGED <<clock, issued, req, pre, prev, served>>

\* delete_todo_handler: the existence query answered Err.
DeleteCheckErr(p, ids) ==
    \E id \in ids :
        /\ Arrive(p, DeleteReq(id))
        /\ Return(p, InternalServerError)
        /\ muts' = [muts EXCEPT ![p] = {}]
        /\ UNCHANGED <<store, clock, issued, deleted>>

\* The delete answered Err.
DeleteExecErr(p) ==
    /\ pc[p] = "delete_exec"
    /\ Return(p, InternalServerError)
    /\ UNCHANGED <<store, clock, issued, req, pre, muts, prev, deleted, served>>

\* ------------------------------------------------------------------ list
\* usize, modelled UsizeBits wide: the arithmetic of the handler is taken
\* modulo 2^UsizeBits.
UsizeBits == 4
UsizeRange == 2 ^ UsizeBits
DefaultLimit == 10
DefaultPage == 1
MaxPage == 3       \* largest page number asked for
MaxLimit == 2      \* largest small limit asked for

\* QueryOptions: the page numbers and limits the requests carry: the small
\* ones, and a limit of half the word range.
Pages == Opt(0..MaxPage)
Limits == Opt((0..MaxLimit) \cup {UsizeRange \div 2})

ListReq(page, limit) == Req("list", None, None, None, None, page, limit)

\* SELECT ... FROM todo_db.todos: every row, in an order the store chooses.
Orderings(S) ==
    {q \in [1..Cardinality(S) -> S] : \A i, j \in DOMAIN q : q[i] = q[j] => i = j}
SelectAll(s) == Orderings({i \in Ids : HasRow(s, i)})

\* The loop over into_typed: rows that decode are pushed, the others skipped.
RECURSIVE DecodeAll(_, _)
DecodeAll(s, ids) ==
    IF ids = <<>> THEN <<>>
    ELSE LET id == Head(ids) IN
         (IF Decodes(RowAt(s, id)) THEN <<DecodeRow(id, RowAt(s, id))>> ELSE <<>>)
            \o DecodeAll(s, Tail(ids))

\* (page - 1) * limit as the machine computes it when it does not trap.
WrappedOffset(page, limit) == ((page - 1) * limit) % UsizeRange
\* The subtraction or the multiplication leaves the range of usize.
Overflows(page, limit) == page - 1 < 0 \/ (page - 1) * limit >= UsizeRange

\* todos.into_iter().skip(offset).take(limit).collect()
SkipTake(todos, offset, limit) ==
    SubSeq(todos, offset + 1,
           IF offset + limit < Len(todos) THEN offset + limit ELSE Len(todos))

\* TodoListResponse under HttpResponse::Ok. `scanned` is not part of the
\* response: it records the order the select returned (history).
OkList(todos, scanned) ==
    [code |-> 200, status |-> "success", results |-> Len(todos), todos |-> todos,
     scanned |-> scanned]

\* The handler did not return: the task panicked.
Panicked == [code |-> 0, status |-> "panic", todo |-> None]

\* todos_list_handler: the select answered Ok and the offset arithmetic did
\* not trap (it was in range, or the build wraps on overflow).
ListSelect(p) ==
    \E page \in Pages, lim \in Limits, rows \in SelectAll(store) :
        LET limit == unwrap_or(lim, DefaultLimit)
            todos == DecodeAll(store, rows)
            offset == WrappedOffset(unwrap_or(page, DefaultPage), limit)
        IN  /\ Arrive(p, ListReq(page, lim))
            /\ Return(p, OkList(SkipTake(todos, offset, limit), rows))
            /\ muts' = [muts EXCEPT ![p] = {}]
            /\ UNCHANGED <<store, clock, issued, deleted>>

\* todos_list_handler: the select answered Ok and the offset arithmetic
\* trapped (a build with overflow checks): the handler panics.
ListPanic(p) ==
    \E page \in Pages, lim \in Limits :
        /\ Overflows(unwrap_or(page, DefaultPage), unwrap_or(lim, DefaultLimit))
        /\ Arrive(p, ListReq(page, lim))
        /\ Return(p, Panicked)
        /\ muts' = [muts EXCEPT ![p] = {}]
        /\ UNCHANGED <<store, clock, issued, deleted>>

\* todos_list_handler: the select answered Err.
ListErr(p) ==
    \E page \in Pages, lim \in Limits :
        /\ Arrive(p, ListReq(page, lim))
        /\ Return(p, InternalServerError)
        /\ muts' = [muts EXCEPT ![p] = {}]
        /\ UNCHANGED <<store, clock, issued, deleted>>

\* ------------------------------------------------- requests one at a time
\* Every storage call answers Ok.
\* The task that serves every request when requests do not overlap.
Solo == CHOOSE p \in Procs : \A q \in Procs : p <= q

Next ==
    \/ Tick
    \/ CreateBegin(Solo)
    \/ CreateCheck(Solo)
    \/ CreateInsert(Solo)
    \/ GetSelect(Solo, Ids)
    \/ EditSelect(Solo, EditReqs)
    \/ EditUpdate(Solo)
    \/ DeleteCheck(Solo, Ids)
    \/ DeleteExec(Solo)

Spec == Init /\ [][Next]_vars

\* ------------------------------------- one at a time, storage calls may fail
NextFail ==
    \/ Next
    \/ CreateErr(Solo)
    \/ GetErr(Solo, Ids)
    \/ EditSelectErr(Solo, EditReqs)
    \/ EditUpdateErr(Solo)
    \/ DeleteCheckErr(Solo, Ids)
    \/ DeleteExecErr(Solo)
    \/ ListSelect(Solo)
    \/ ListErr(Solo)

SpecFail == Init /\ [][NextFail]_vars

\* ------------------------------------------------------ overlapping requests
\* Requests that overlap, all for one todo: the id a create has returned,
\* and edit bodies that leave the content alone or set it to "c2".
RowId == CHOOSE i \in Ids : \A j \in Ids : i <= j
RowIds == {RowId}
RowEdits ==
    {r \in EditReqs : r.id = Some(RowId) /\ r.content \in {None, Some("c2")}}

\* The table after one create has succeeded at clock 0.
InitRow ==
    /\ store = InsertRow(EmptyStore, RowId, "t1", "c1", FALSE,
                         timestamp_millis(0), timestamp_millis(0))
    /\ clock = 0
    /\ issued = {RowId}
    /\ pc = [p \in Procs |-> "idle"]
    /\ req = [p \in Procs |-> NoReq]
    /\ loc = [p \in Procs |-> NoLoc]
    /\ resp = [p \in Procs |-> NoResp]
    /\ pre = [p \in Procs |-> [store |-> EmptyStore, deleted |-> {}]]
    /\ muts = [p \in Procs |-> {}]
    /\ prev = [p \in Procs |-> None]
    /\ deleted = {}
    /\ served = 0

NextRow ==
    \/ Tick
    \/ \E p \in Procs :
        \/ GetSelect(p, RowIds)
        \/ EditSelect(p, RowEdits)
        \/ EditUpdate(p)
        \/ DeleteCheck(p, RowIds)
        \/ DeleteExec(p)

SpecRow == InitRow /\ [][NextRow]_vars

\* ------------------------------------- overlapping requests, every handler
\* Two tasks serve creates, gets, edits and deletes of any id from the empty
\* table; the edit bodies carry a title or nothing.
AllEdits == {r \in EditReqs : r.content = None /\ r.completed = None}

NextAll ==
    \/ Tick
    \/ \E p \in Procs :
        \/ CreateBegin(p)
        \/ CreateCheck(p)
        \/ CreateInsert(p)
        \/ GetSelect(p, Ids)
        \/ EditSelect(p, AllEdits)
        \/ EditUpdate(p)
        \/ DeleteCheck(p, Ids)
        \/ DeleteExec(p)

SpecAll == Init /\ [][NextAll]_vars

\* ----------------------------------------------------------------- listing
\* Tables the handlers can leave behind: per id no row, a row as create
\* inserts it, or a row an update wrote under a deleted id (no created_at).
ListRows ==
    {Row(t, "c1", FALSE, Some(0), Some(0)) : t \in Titles}
        \cup {Row(t, "c1", FALSE, None, Some(0)) : t \in Titles}
ListTables == [Ids -> Opt(ListRows)]

InitList ==
    /\ store \in ListTables
    /\ clock = 0
    /\ issued = Ids
    /\ pc = [p \in Procs |-> "idle"]
    /\ req = [p \in Procs |-> NoReq]
    /\ loc = [p \in Procs |-> NoLoc]
    /\ resp = [p \in Procs |-> NoResp]
    /\ pre = [p \in Procs |-> [store |-> EmptyStore, deleted |-> {}]]
    /\ muts = [p \in Procs |-> {}]
    /\ prev = [p \in Procs |-> None]
    /\ deleted = {}
    /\ served = MaxRequests - 2    \* a run serves two list calls

NextList ==
    \E p \in Procs :
        \/ ListSelect(p)
        \/ ListPanic(p)
        \/ ListErr(p)

SpecList == InitList /\ [][NextList]_vars

\* ------------------------------------------- rows that do not decode
\* Two requests against a table that may hold rows without created_at:
\* list, get, edit and delete of any id.
NextSkip ==
    \E p \in Procs :
        \/ ListSelect(p)
        \/ GetSelect(p, Ids)
        \/ EditSelect(p, AllEdits)
        \/ EditUpdate(p)
        \/ DeleteCheck(p, Ids)
        \/ DeleteExec(p)

SpecSkip == InitList /\ [][NextSkip]_vars

\* ======================================================================
\* Properties
\* ======================================================================
Done(p, kind) == pc[p] = "done" /\ req[p].kind = kind
WithTitle(s, title) == {i \in Ids : s[i] # None /\ s[i][1].title = title}
Succeeded(p, kind) == Done(p, kind) /\ resp[p].code = 200
ReqId(p) == Unwrap(req[p].id)
OthersUnchanged(s, t, id) == \A i \in Ids \ {id} : s[i] = t[i]

\* C1: with requests served one at a time, no two stored todos ever have the
\* same title, whatever create, edit and delete requests were served.
C1_TitleUnique ==
    \A i, j \in Ids :
        (i # j /\ HasRow(store, i) /\ HasRow(store, j))
            => RowAt(store, i).title # RowAt(store, j).title

\* C2: a create whose title is the title of a stored todo answers 409 "fail",
\* issues no insert and leaves the table as it was; a create that follows a
\* successful create of the same title answers 409 and the table holds one
\* row with that title.
C2_DuplicateCreateConflicts ==
    \A p \in Procs :
        /\ (Done(p, "create") /\ WithTitle(pre[p].store, Unwrap(req[p].title)) # {})
            => /\ resp[p] = Conflict
               /\ muts[p] = {}
               /\ store = pre[p].store
        /\ (Done(p, "create") /\ prev[p] # None
              /\ Unwrap(prev[p]).title = Unwrap(req[p].title))
            => /\ resp[p] = Conflict
               /\ Cardinality(WithTitle(store, Unwrap(req[p].title))) = 1

\* C2 witness: two creates of one title in a row, success then 409.
C2_Witness ==
    /\ Done(Solo, "create")
    /\ prev[Solo] # None
    /\ Unwrap(prev[Solo]).title = Unwrap(req[Solo].title)
    /\ resp[Solo] = Conflict

\* C3: every create draws an id no earlier create has drawn, and a successful
\* create adds exactly one row, under that id, with the request's title and
\* content, completed = false and created_at = updated_at; the entity it
\* returns has that id, completed = false and createdAt = updatedAt.
C3_CreateAddsFreshRow ==
    [][\A p \in Procs :
        /\ (pc[p] # "create_check" /\ pc'[p] = "create_check")
            => loc'[p].uuid_id \notin issued
        /\ (pc[p] = "create_insert" /\ pc'[p] = "done" /\ resp'[p].code = 200)
            => LET id == loc[p].uuid_id
                   todo == Unwrap(resp'[p].todo)
               IN  /\ id \in issued
                   /\ ~HasRow(store, id)
                   /\ HasRow(store', id)
                   /\ OthersUnchanged(store, store', id)
                   /\ RowAt(store', id).title = Unwrap(req[p].title)
                   /\ RowAt(store', id).content = Unwrap(req[p].content)
                   /\ RowAt(store', id).completed = FALSE
                   /\ RowAt(store', id).created_at # None
                   /\ RowAt(store', id).created_at = RowAt(store', id).updated_at
                   /\ todo.id = Some(id)
                   /\ todo.title = Unwrap(req[p].title)
                   /\ todo.content = Unwrap(req[p].content)
                   /\ todo.completed = Some(FALSE)
                   /\ todo.createdAt # None
                   /\ todo.createdAt = todo.updatedAt
      ]_vars

\* C3 witness: a create has succeeded after the todo of an earlier create
\* was deleted.
C3_Witness ==
    /\ Succeeded(Solo, "create")
    /\ deleted # {}
    /\ HasRow(store, Unwrap(Unwrap(resp[Solo].todo).id))

\* C4: a get that directly follows a successful create and asks for the
\* returned id returns the entity of the create response, timestamps included.
C4_CreateGetRoundTrip ==
    \A p \in Procs :
        (Succeeded(p, "get") /\ prev[p] # None /\ req[p].id = Unwrap(prev[p]).id)
            => Unwrap(resp[p].todo) = Unwrap(prev[p])

\* The edit of task p carried an empty body.
EmptyBody(p) == req[p].title = None /\ req[p].content = None /\ req[p].completed = None

\* C5 as stated: a successful edit with an empty body leaves title, content,
\* completed and created_at of the row as they were and makes updated_at
\* strictly greater than it was.
C5_EmptyEditStrictlyLater ==
    \A p \in Procs :
        (Succeeded(p, "edit") /\ EmptyBody(p))
            => LET old == RowAt(pre[p].store, ReqId(p))
                   new == RowAt(store, ReqId(p))
               IN  /\ new.title = old.title
                   /\ new.content = old.content
                   /\ new.completed = old.completed
                   /\ new.created_at = old.created_at
                   /\ Unwrap(new.updated_at) > Unwrap(old.updated_at)

\* C5 amended: a successful edit with an empty body leaves title, content,
\* completed and created_at of the row as they were and sets updated_at to
\* the edit's clock reading truncated to milliseconds, which is never less
\* than the value before (the clock not running backwards) and is equal to
\* it when both readings fall in one millisecond.
C5_EmptyEditNotEarlier ==
    \A p \in Procs :
        (Succeeded(p, "edit") /\ EmptyBody(p))
            => LET old == RowAt(pre[p].store, ReqId(p))
                   new == RowAt(store, ReqId(p))
                   todo == Unwrap(resp[p].todo)
               IN  /\ new.title = old.title
                   /\ new.content = old.content
                   /\ new.completed = old.completed
                   /\ new.created_at = old.created_at
                   /\ new.updated_at = Some(timestamp_millis(Unwrap(todo.updatedAt)))
                   /\ Unwrap(new.updated_at) >= Unwrap(old.updated_at)

\* C5 witness: an empty-body edit of a completed todo moved updated_at forward.
C5_Witness ==
    /\ Succeeded(Solo, "edit")
    /\ EmptyBody(Solo)
    /\ RowAt(store, ReqId(Solo)).completed
    /\ Unwrap(RowAt(store, ReqId(Solo)).updated_at)
         > Unwrap(RowAt(pre[Solo].store, ReqId(Solo)).updated_at)

\* C6: after a successful edit served alone, title, content and completed of
\* the row are the body's values where present and the values stored before
\* otherwise; the response carries the same values; no other row changed.
C6_PartialUpdateByPresence ==
    \A p \in Procs :
        Succeeded(p, "edit")
            => LET old == RowAt(pre[p].store, ReqId(p))
                   new == RowAt(store, ReqId(p))
                   todo == Unwrap(resp[p].todo)
               IN  /\ new.title = IF req[p].title # None THEN Unwrap(req[p].title) ELSE old.title
                   /\ new.content = IF req[p].content # None THEN Unwrap(req[p].content) ELSE old.content
                   /\ new.completed = IF req[p].completed # None THEN Unwrap(req[p].completed) ELSE old.completed
                   /\ todo.id = req[p].id
                   /\ todo.title = new.title
                   /\ todo.content = new.content
                   /\ todo.completed = Some(new.completed)
                   /\ OthersUnchanged(pre[p].store, store, ReqId(p))

\* C6 witness: completed = false in the body replaced a stored true, with
\* title and content absent.
C6_Witness ==
    /\ Succeeded(Solo, "edit")
    /\ req[Solo].completed = Some(FALSE)
    /\ req[Solo].title = None
    /\ req[Solo].content = None
    /\ RowAt(pre[Solo].store, ReqId(Solo)).completed
    /\ ~RowAt(store, ReqId(Solo)).completed

\* C7: get, edit and delete of an id that has no row answer 404 "fail",
\* issue no update and no delete, and leave the table as it was.
C7_MissingIdNotFound ==
    \A p \in Procs :
        (pc[p] = "done" /\ req[p].kind \in {"get", "edit", "delete"}
            /\ ~HasRow(pre[p].store, ReqId(p)))
            => /\ resp[p] = NotFound
               /\ muts[p] = {}
               /\ store = pre[p].store

\* C7 witness: a delete of an id with no row answered 404 while another row
\* was stored.
C7_Witness ==
    /\ Done(Solo, "delete")
    /\ ~HasRow(pre[Solo].store, ReqId(Solo))
    /\ resp[Solo] = NotFound
    /\ store # EmptyStore

\* C8: a get, edit or delete of an id that arrives after a delete of that id
\* has answered 204 answers 404.
C8_DeletedStaysNotFound ==
    \A p \in Procs :
        (pc[p] = "done" /\ req[p].kind \in {"get", "edit", "delete"}
            /\ ReqId(p) \in pre[p].deleted)
            => resp[p] = NotFound

\* The page and limit a list request asks for, defaults applied.
AskedPage(p) == unwrap_or(req[p].page, DefaultPage)
AskedLimit(p) == unwrap_or(req[p].limit, DefaultLimit)
Listed(p) == Done(p, "list") /\ resp[p].code = 200
Range(q) == {q[i] : i \in DOMAIN q}

\* C9: for page >= 1 and limit >= 1 a successful list returns the decoded
\* rows at positions (page-1)*limit .. (page-1)*limit + limit - 1 of the
\* select's sequence, in order, cut at its end, and results is their number.
C9_ListReturnsThePage ==
    \A p \in Procs :
        (Listed(p) /\ AskedPage(p) >= 1 /\ AskedLimit(p) >= 1)
            => LET all == DecodeAll(store, resp[p].scanned)
                   from == (AskedPage(p) - 1) * AskedLimit(p)
                   to == IF from + AskedLimit(p) < Len(all)
                         THEN from + AskedLimit(p) ELSE Len(all)
               IN  /\ resp[p].todos = SubSeq(all, from + 1, to)
                   /\ resp[p].results = Len(resp[p].todos)

\* C10: two successful list calls against the same table with the same
\* limit >= 1, the select returning the rows in the same order to both,
\* return the same todos for the same page and disjoint sets of todos for
\* different pages >= 1.
C10_StablePageBoundaries ==
    \A p, q \in Procs :
        (Listed(p) /\ Listed(q) /\ AskedLimit(p) = AskedLimit(q)
            /\ AskedLimit(p) >= 1 /\ AskedPage(p) >= 1 /\ AskedPage(q) >= 1
            /\ resp[p].scanned = resp[q].scanned)
            => IF AskedPage(p) = AskedPage(q)
               THEN resp[p].todos = resp[q].todos
               ELSE Range(resp[p].todos) \cap Range(resp[q].todos) = {}

\* C11: a request whose storage call failed is answered 500 with status
\* "error", carrying no entity and no todos; a handler that has answered
\* issues no further storage call; a failure before the insert, update or
\* delete was issued leaves the table as it was when the request arrived;
\* and every request that did not fail is answered with another code.
C11_StorageFailureIs500 ==
    \A p \in Procs :
        /\ (pc[p] = "done" /\ resp[p].code = 500)
            => /\ resp[p] = [code |-> 500, status |-> "error", todo |-> None]
               /\ loc[p] = NoLoc
               /\ (muts[p] = {} => store = pre[p].store)
        /\ (pc[p] = "done" /\ resp[p].code # 500)
            => resp[p].code \in {200, 204, 404, 409}
        /\ (pc[p] = "done" /\ resp[p].code \in {404, 409, 500})
            => muts[p] = {}

\* C11 witness: a delete failed at its existence query with the row stored,
\* and the row is still there.
C11_Witness ==
    /\ Done(Solo, "delete")
    /\ resp[Solo] = InternalServerError
    /\ HasRow(pre[Solo].store, ReqId(Solo))
    /\ HasRow(store, ReqId(Solo))

C13_IdAndCreatedAtFixed ==
    [][/\ \A i \in Ids :
            (HasRow(store, i) /\ HasRow(store', i))
                => RowAt(store', i).created_at = RowAt(store, i).created_at
       /\ \A p \in Procs :
            /\ (pc[p] = "create_insert" /\ pc'[p] = "done")
                => ~HasRow(store, loc[p].uuid_id)
            /\ (pc[p] = "edit_update" /\ pc'[p] = "done" /\ HasRow(store, loc[p].id))
                => /\ Unwrap(resp'[p].todo).id = Some(loc[p].id)
                   /\ Unwrap(resp'[p].todo).createdAt
                        = Some(from_timestamp_millis(Unwrap(RowAt(store', loc[p].id).created_at)))
      ]_vars

\* C13 witness: an edit has retitled a row a millisecond or more after its
\* insert, and the row has the created_at it had.
C13_Witness ==
    \E p \in Procs :
        /\ Succeeded(p, "edit")
        /\ HasRow(pre[p].store, ReqId(p))
        /\ HasRow(store, ReqId(p))
        /\ RowAt(store, ReqId(p)).title # RowAt(pre[p].store, ReqId(p)).title
        /\ RowAt(store, ReqId(p)).created_at = RowAt(pre[p].store, ReqId(p)).created_at
        /\ RowAt(store, ReqId(p)).updated_at # RowAt(store, ReqId(p)).created_at

\* C14: when a create issues its insert while the row of another task's
\* successful create of the same title is stored (both uniqueness checks
\* ran before either insert), the insert succeeds under a different id and
\* the table then holds two rows with that title.
C14_CreateRace ==
    [][\A p, q \in Procs :
        (/\ p # q
         /\ pc[p] = "create_insert" /\ pc'[p] = "done"
         /\ Succeeded(q, "create")
         /\ HasRow(store, Unwrap(Unwrap(resp[q].todo).id))
         /\ RowAt(store, Unwrap(Unwrap(resp[q].todo).id)).title = loc[p].title)
            => LET qid == Unwrap(Unwrap(resp[q].todo).id)
                   pid == loc[p].uuid_id
               IN  /\ resp'[p].code = 200
                   /\ Unwrap(resp'[p].todo).id = Some(pid)
                   /\ pid # qid
                   /\ {pid, qid} \subseteq WithTitle(store', loc[p].title)
                   /\ Cardinality(WithTitle(store', loc[p].title)) >= 2
      ]_vars

\* C14 witness: two creates of one title, each arriving before the other's
\* insert, have both answered 200 and both rows are stored.
C14_Witness ==
    \E p, q \in Procs :
        /\ p # q
        /\ Succeeded(p, "create") /\ Succeeded(q, "create")
        /\ req[p].title = req[q].title
        /\ pre[p].store = EmptyStore /\ pre[q].store = EmptyStore
        /\ Unwrap(resp[p].todo).id # Unwrap(resp[q].todo).id
        /\ Cardinality(WithTitle(store, Unwrap(req[p].title))) = 2

\* C15: the update of an edit leaves the row with exactly that edit's
\* values: title, content and completed are the body's where present and
\* otherwise those of the row the edit read at its select (not those stored
\* when the update runs), and updated_at is the edit's clock reading in
\* milliseconds; so of two overlapping edits the one whose update runs last
\* determines all four columns.
C15_LastWriteWins ==
    [][\A p \in Procs :
        (pc[p] = "edit_update" /\ pc'[p] = "done" /\ resp'[p].code = 200)
            => LET new == RowAt(store', loc[p].id)
                   read == loc[p].existing
               IN  /\ HasRow(store', loc[p].id)
                   /\ new.title = IF req[p].title # None
                                   THEN Unwrap(req[p].title) ELSE read.title
                   /\ new.content = IF req[p].content # None
                                     THEN Unwrap(req[p].content) ELSE read.content
                   /\ new.completed = IF req[p].completed # None
                                       THEN Unwrap(req[p].completed)
                                       ELSE Unwrap(read.completed)
                   /\ new.updated_at = Some(timestamp_millis(loc[p].datetime))
      ]_vars

\* C15 witness: two edits read the same row; one set the title to "t2" and
\* answered 200, the other carried no title, wrote last and answered 200,
\* and the stored title is the old "t1" again.
C15_Witness ==
    \E p, q \in Procs :
        /\ p # q
        /\ Succeeded(p, "edit") /\ Succeeded(q, "edit")
        /\ pre[p].store = pre[q].store
        /\ req[q].title = Some("t2")
        /\ Unwrap(resp[q].todo).title = "t2"
        /\ req[p].title = None
        /\ HasRow(store, RowId)
        /\ RowAt(store, RowId).title = "t1"

\* C16: once two deletes of one id have both answered, the row the first
\* of them saw is gone and at least one of them has answered 204; when
\* both existence checks saw the row, both have answered 204.
C16_DeleteRace ==
    \A p, q \in Procs :
        (p # q /\ Done(p, "delete") /\ Done(q, "delete") /\ ReqId(p) = ReqId(q)
            /\ HasRow(pre[p].store, ReqId(p)))
            => /\ ~HasRow(store, ReqId(p))
               /\ resp[p] = NoContent
               /\ (HasRow(pre[q].store, ReqId(q)) => resp[q] = NoContent)

\* C16 witness: two deletes of the stored id, neither arriving after the
\* other's answer, have both answered 204.
C16_Witness ==
    \E p, q \in Procs :
        /\ p # q
        /\ Done(p, "delete") /\ Done(q, "delete")
        /\ ReqId(p) = ReqId(q)
        /\ ReqId(p) \notin pre[p].deleted
        /\ ReqId(q) \notin pre[q].deleted
        /\ resp[p] = NoContent /\ resp[q] = NoContent
        /\ ~HasRow(store, ReqId(p))

\* The request of task p was answered as found.
Found(p) == resp[p].code \in {200, 204}
\* The ids of the rows of table s that decode.
Decodable(s) == {i \in Ids : HasRow(s, i) /\ Decodes(RowAt(s, i))}

\* C17: a list answers 200 and returns only rows that decode (all of them
\* with the default page and limit); a get or edit of the id of a row that
\* does not decode answers 404; and a get, an edit and a delete of one id
\* against one table agree on found or not found.
C17_DecodeSkip ==
    /\ \A p \in Procs :
        /\ Done(p, "list")
            => /\ resp[p].code = 200
               /\ \A t \in Range(resp[p].todos) : Unwrap(t.id) \in Decodable(pre[p].store)
               /\ (req[p].page = None /\ req[p].limit = None)
                    => {Unwrap(t.id) : t \in Range(resp[p].todos)} = Decodable(pre[p].store)
        /\ (pc[p] = "done" /\ req[p].kind \in {"get", "edit"}
              /\ ReqId(p) \notin Decodable(pre[p].store))
            => resp[p] = NotFound
    /\ \A p, q \in Procs :
        (/\ pc[p] = "done" /\ pc[q] = "done"
         /\ req[p].kind \in {"get", "edit", "delete"}
         /\ req[q].kind \in {"get", "edit", "delete"}
         /\ ReqId(p) = ReqId(q)
         /\ pre[p].store = pre[q].store)
            => Found(p) = Found(q)

\* C18: a step that adds a row under an id is the insert of a create of
\* that id, and no stored row lacks created_at: an edit's update never
\* brings a row into the table, also not after a delete of its id.
C18_OnlyCreateAddsRows ==
    [][\A i \in Ids :
        /\ (~HasRow(store, i) /\ HasRow(store', i))
            => \E p \in Procs :
                /\ pc[p] = "create_insert" /\ pc'[p] = "done"
                /\ loc[p].uuid_id = i
        /\ HasRow(store', i) => RowAt(store', i).created_at # None
      ]_vars

\* C19: no step lowers the updated_at of a stored row, whatever edits of
\* its id overlap.
C19_UpdatedAtNeverDecreases ==
    [][\A i \in Ids :
        (HasRow(store, i) /\ HasRow(store', i))
            => Unwrap(RowAt(store', i).updated_at) >= Unwrap(RowAt(store, i).updated_at)
      ]_vars

\* C20: a list request with any page and limit whose select succeeded is
\* answered with a list envelope, never by a panic, and when the offset
\* (page - 1) * limit computed without wrap-around lies at or past the end
\* of the decoded rows the envelope is empty.
C20_OffsetArithmeticTotal ==
    \A p \in Procs :
        (Done(p, "list") /\ resp[p] # InternalServerError)
            => /\ resp[p] # Panicked
               /\ resp[p].code = 200
               /\ (AskedPage(p) >= 1
                     /\ (AskedPage(p) - 1) * AskedLimit(p)
                           >= Len(DecodeAll(store, resp[p].scanned)))
                    => resp[p].todos = <<>>

====
